---- MODULE Spec2Model ----
(***************************************************************************)
(* Surplus-scraper: the job registry of main.py (scraping_status,          *)
(* scraped_data_store), its request handlers, and the scraping pass        *)
(* run_scraping_job that a worker thread runs through scraper.py           *)
(* (discover_listings, scrape_all_listings, scrape_listing).               *)
(*                                                                         *)
(* The request handlers are coroutines of one event loop: a handler runs   *)
(* to its end before the next one starts.  run_scraping_job is a plain     *)
(* function given to BackgroundTasks, so it runs on a worker thread and    *)
(* its statements interleave with the handlers' statements.                *)
(***************************************************************************)
EXTENDS Integers, Sequences, FiniteSets, TLC

\* ------------------------------------------------------------------ bounds
MaxJobs == 2            \* start_scraping calls in one behaviour
MaxNow == 2             \* last clock reading, in ticks
TicksPerSecond == 2     \* clock readings that fall in one second
MaxListings == 1        \* largest max_listings a request carries
MaxPages == 2           \* index pages of a site that discovery is run on alone
MaxItems == 2           \* largest max_items discovery is run with alone
MaxImgs == 2            \* img elements of a detail page
MaxLinks == 2           \* a.addlImage elements of a detail page

\* -------------------------------------------------------- program constants
items_per_page == 100

\* Optional[int]: requests carry naturals, so -1 is free to stand for None.
None == 0 - 1

Min(a, b) == IF a < b THEN a ELSE b

\* ------------------------------------------------------------- the catalog
\* An index page is the list of ItemNo values of its listing anchors, in
\* document order, and the number of further anchors td.itemid a.collink0
\* whose href carries no ItemNo (they count as links and yield no item).
Page(ids, pad) == [ids |-> ids, pad |-> pad]

EmptyPage == Page(<<>>, 0)

\* A page the site fills to its batch size.
FullPage(ids) == Page(ids, items_per_page - Len(ids))

\* The sites a behaviour starts from: the index pages at startRec = 1, 101, ...
Catalogs ==
    { <<>>,
      << Page(<<1, 2>>, 0) >> }

\* The sites discovery is run on alone.  The lists of ItemNo values a page
\* may carry: none, one, two, a repeated one, and ones other pages carry too.
IdLists == { <<>>, <<1>>, <<3>>, <<1, 2>>, <<2, 1>>, <<1, 1>>, <<2, 3>>, <<3, 1>> }

FullPages == { FullPage(ids) : ids \in IdLists }

ShortPages == { Page(ids, pad) : ids \in IdLists, pad \in {0, 1} } \ {EmptyPage}

\* discover_listings never asks for a page behind a page of fewer than 100
\* links, so a site is given by its full pages and the short page after them.
Sites ==
    UNION { { full \o last : full \in [1..k -> FullPages],
                             last \in {<<>>} \cup
                                 (IF k < MaxPages
                                  THEN { <<page>> : page \in ShortPages } ELSE {}) }
            : k \in 0..MaxPages }

\* len(item_links)
LinkCount(page) == Len(page.ids) + page.pad

\* ------------------------------------------------------- the detail pages
\* A src or href attribute: the text before the first '?', and the text
\* after it ("" when the attribute carries no '?').
Url(path, query) == [path |-> path, query |-> query]

\* The attribute is missing or empty.
NoUrl == Url("", "")

Paths == { "clientresources/a.jpg", "clientresources/c", "images/b.jpg" }

\* re.compile(r'clientresources', re.IGNORECASE) matches
ClientResources == { "clientresources/a.jpg", "clientresources/c" }

\* re.search(r'\.(jpg|jpeg|png|gif|bmp|webp)', src, re.IGNORECASE) matches
ImageExt == { "clientresources/a.jpg", "images/b.jpg" }

Urls == { Url(path, query) : path \in Paths, query \in {"", "w=1", "w=2"} } \cup {NoUrl}

\* An img element: its class (imgprev or another) and its src.
Img(class, src) == [class |-> class, src |-> src]

Imgs == { Img(class, src) : class \in {"imgprev", ""}, src \in Urls }

\* A detail page, as far as pictures go: its img elements and the hrefs of
\* its a.addlImage elements, each in document order.
Doc(imgs, links) == [imgs |-> imgs, links |-> links]

Docs ==
    { Doc(imgs, links) :
        imgs \in UNION { [1..n -> Imgs] : n \in 0..MaxImgs },
        links \in UNION { [1..n -> Urls] : n \in 0..MaxLinks } }

\* The detail page of the sites the whole service is run on: one picture.
PlainDoc == Doc(<< Img("imgprev", Url("clientresources/a.jpg", "")) >>, <<>>)

ItemNos == 1..3

\* What get_soup returns: the parsed page, or None after any fetch error.
Soup(page) == [ok |-> TRUE, page |-> page]

NoSoup == [ok |-> FALSE, page |-> EmptyPage]

VARIABLES
    catalog,             \* the site's index pages
    details,             \* the site's detail pages: item number -> document
    now,                 \* the last reading of datetime.now(), in ticks
    scraping_status,     \* main.py: job_id -> status dict
    scraped_data_store,  \* main.py: job_id -> list of listing dicts
    tasks,               \* the background tasks, in the order they were added
    loop                 \* the event loop: idle, or inside delete_data (with
                         \* its job_id, and whether the registry held no entry
                         \* for that id when the call began)

vars == <<catalog, details, now, scraping_status, scraped_data_store, tasks, loop>>

\* datetime.now().strftime("%Y%m%d_%H%M%S"): the reading cut to whole seconds.
strftime(t) == t \div TicksPerSecond

JobIds == { strftime(t) : t \in 0..MaxNow }

MaxListingsChoices == {None} \cup (1..MaxListings)

\* ---------------------------------------------------------- dict operations
Has(d, k) == k \in DOMAIN d

\* d[k] = v
Put(d, k, v) == [x \in DOMAIN d \cup {k} |-> IF x = k THEN v ELSE d[x]]

\* del d[k]
Del(d, k) == [x \in DOMAIN d \ {k} |-> d[x]]

\* ------------------------------------------------------------ status dicts
Label(text, no) == [text |-> text, no |-> no]

PendingStatus ==
    [status |-> "pending", progress |-> 0, total |-> 0, current_url |-> Label("", 0)]

RunningStatus(current, total, url) ==
    [status |-> "running", progress |-> current, total |-> total, current_url |-> url]

CompletedStatus(progress, total, count) ==
    [status |-> "completed", progress |-> progress, total |-> total,
     current_url |-> Label("Completed", 0), count |-> count]

ErrorStatus(e, progress, total) ==
    [status |-> "error", error |-> e, traceback |-> e,
     progress |-> progress, total |-> total]

\* -------------------------------------------------------------- discovery
\* The page the site serves for startRec; past its last page it serves a page
\* without listing anchors.
PageAt(cat, start_rec) ==
    LET k == (start_rec - 1) \div items_per_page + 1
    IN  IF k <= Len(cat) THEN cat[k] ELSE EmptyPage

\* A loop that appended every ItemNo it met, seen before or not, would break
\* C15.
AddItemsUnchecked(numbers, ids) == numbers \o ids

\* for link in item_links: ... if item_no not in item_numbers: append
RECURSIVE AddItems(_, _)
AddItems(numbers, ids) ==
    IF ids = <<>> THEN numbers
    ELSE LET n == Head(ids)
             has == \E k \in 1..Len(numbers) : numbers[k] = n
         IN  AddItems(IF has THEN numbers ELSE Append(numbers, n), Tail(ids))

\* item_numbers[:max_items], max_items >= 0
Take(s, n) == SubSeq(s, 1, Min(n, Len(s)))

\* `max_items and ...`: None and 0 are both false
Truthy(max_items) == max_items # None /\ max_items # 0

\* A one-turn loop that also left on a page of exactly items_per_page links
\* would break C14 as amended.
DiscoverTurnStopsAtFull(t, soup) ==
    IF ~soup.ok THEN [t EXCEPT !.soup = "None", !.discovering = FALSE]
    ELSE IF LinkCount(soup.page) = 0
    THEN [t EXCEPT !.soup = "doc", !.discovering = FALSE]
    ELSE LET numbers == AddItems(t.item_numbers, soup.page.ids)
         IN  IF LinkCount(soup.page) <= items_per_page
             THEN [t EXCEPT !.soup = "doc", !.item_numbers = numbers,
                            !.discovering = FALSE]
             ELSE [t EXCEPT !.soup = "doc", !.item_numbers = numbers,
                            !.start_rec = t.start_rec + items_per_page]

\* One turn of the while loop of discover_listings on what get_soup returned:
\* the task's locals afterwards; discovering = FALSE once the loop is left.
DiscoverTurn(t, soup) ==
    IF ~soup.ok THEN [t EXCEPT !.soup = "None", !.discovering = FALSE]
    ELSE IF LinkCount(soup.page) = 0
    THEN [t EXCEPT !.soup = "doc", !.discovering = FALSE]
    ELSE LET numbers == AddItems(t.item_numbers, soup.page.ids)
         IN  IF LinkCount(soup.page) < items_per_page
             THEN [t EXCEPT !.soup = "doc", !.item_numbers = numbers,
                            !.discovering = FALSE]
             ELSE IF Truthy(t.max_listings) /\ Len(numbers) >= t.max_listings
             THEN [t EXCEPT !.soup = "doc",
                            !.item_numbers = Take(numbers, t.max_listings),
                            !.discovering = FALSE]
             ELSE [t EXCEPT !.soup = "doc", !.item_numbers = numbers,
                            !.start_rec = t.start_rec + items_per_page]

\* ------------------------------------------------------------------ tasks
\* A get_soup call of a pass: the page asked for (an index page by its
\* startRec, a detail page by its item number) and whether a page came back.
Fetch(kind, arg, ok) == [kind |-> kind, arg |-> arg, ok |-> ok]

\* A background task: run_scraping_job(job_id, max_listings) and its locals;
\* `fetches` is the history of the get_soup calls the pass has made.
NewTask(job_id, max_listings) ==
    [job_id |-> job_id, max_listings |-> max_listings, pc |-> "line48",
     item_numbers |-> <<>>, start_rec |-> 1, soup |-> "doc", discovering |-> TRUE,
     i |-> 0, all_data |-> <<>>, progress |-> 0, total |-> 0,
     e |-> "", wrote |-> "none", fetches |-> <<>>]

Tasks == 1..Len(tasks)

SetTask(p, t) == tasks' = [tasks EXCEPT ![p] = t]

\* src.split('?')[0]
Strip(url) == Url(url.path, "")

BASE_URL == "https://surplus.infineon.com/"

\* urljoin(self.BASE_URL, src), src without a query
urljoin(base, url) == [base |-> base, path |-> url.path]

\* listing_data['pictures'] and seen_urls after one more picture
AddPicture(acc, url) ==
    [pictures |-> Append(acc.pictures, urljoin(BASE_URL, Strip(url))),
     seen_urls |-> acc.seen_urls \cup {Strip(url)}]

\* Method 1, lines 146-153: soup.select_one('img.imgprev')
MainImage(acc, imgs) ==
    LET prev == { k \in 1..Len(imgs) : imgs[k].class = "imgprev" }
    IN  IF prev = {} THEN acc
        ELSE LET src == imgs[CHOOSE k \in prev : \A m \in prev : k <= m].src
             IN  IF src = NoUrl THEN acc ELSE AddPicture(acc, src)

\* Method 2, lines 156-163: for link in soup.select('a.addlImage')
RECURSIVE AddlImages(_, _)
AddlImages(acc, links) ==
    IF links = <<>> THEN acc
    ELSE LET href == Head(links)
         IN  AddlImages(IF href # NoUrl /\ href \notin acc.seen_urls
                        THEN AddPicture(acc, href) ELSE acc,
                        Tail(links))

\* Method 3, lines 166-174: for img in soup.find_all('img', src=...)
RECURSIVE AllImages(_, _)
AllImages(acc, imgs) ==
    IF imgs = <<>> THEN acc
    ELSE LET src == Head(imgs).src
         IN  AllImages(IF /\ src.path \in ClientResources
                          /\ src # NoUrl /\ src \notin acc.seen_urls
                          /\ Strip(src).path \in ImageExt
                       THEN AddPicture(acc, src) ELSE acc,
                       Tail(imgs))

\* lines 142-174: listing_data['pictures']
Pictures(doc) ==
    AllImages(AddlImages(MainImage([pictures |-> <<>>, seen_urls |-> {}], doc.imgs),
                         doc.links),
              doc.imgs).pictures

\* The listing dict scrape_listing returns for item_no.
ListingData(item_no) ==
    [item_id |-> item_no, pictures |-> Pictures(details[item_no])]

\* main.py lines 63-65: '; '.join(item['pictures']), '' for an empty list
Joined(pictures) == [sep |-> "; ", parts |-> pictures]

\* all_data after the loop of lines 63-65
Stored(all_data) ==
    [k \in 1..Len(all_data) |-> [all_data[k] EXCEPT !.pictures = Joined(@)]]

\* Where the pass goes when scrape_all_listings has no more item to scrape.
AfterItem(t, i) == IF i < Len(t.item_numbers) THEN "callback" ELSE "line67"

\* An exception leaves the try block: the handler of line 75 starts.
Raise(t, e) == [t EXCEPT !.pc = "line81", !.e = e]

\* run_scraping_job is left (pc "returned", or "raised" when an exception leaves
\* it): its frame and locals are gone; `wrote` keeps the status it stored last.
Leave(t, pc, wrote) ==
    [NewTask(t.job_id, t.max_listings) EXCEPT !.pc = pc, !.wrote = wrote]

Idle == [pc |-> "idle", job_id |-> 0, absent |-> FALSE]

Init ==
    /\ catalog \in Catalogs
    /\ details = [n \in ItemNos |-> PlainDoc]
    /\ now = 0
    /\ scraping_status = <<>>
    /\ scraped_data_store = <<>>
    /\ tasks = <<>>
    /\ loop = Idle

\* --------------------------------------------------------------- handlers
\* POST /api/scrape
start_scraping(max_listings) ==
    /\ loop.pc = "idle"
    /\ Len(tasks) < MaxJobs
    /\ \E t \in now..MaxNow :
         /\ now' = t
         /\ scraping_status' = Put(scraping_status, strftime(t), PendingStatus)
         /\ tasks' = Append(tasks, NewTask(strftime(t), max_listings))
    /\ UNCHANGED <<catalog, details, scraped_data_store, loop>>

\* GET /api/status/{job_id}: the HTTP status of the answer
StatusCode(job_id) == IF Has(scraping_status, job_id) THEN 200 ELSE 404

get_scraping_status(job_id) ==
    /\ loop.pc = "idle"
    /\ UNCHANGED vars

\* GET /api/data/{job_id}: the HTTP status of the answer
DataCode(job_id) == IF Has(scraped_data_store, job_id) THEN 200 ELSE 404

get_scraped_data(job_id) ==
    /\ loop.pc = "idle"
    /\ UNCHANGED vars

\* A value of the "count" field of a job_info: a number, or a list of
\* listing dicts.
Number(n) == [type |-> "int", n |-> n, items |-> <<>>]

List(items) == [type |-> "list", n |-> 0, items |-> items]

\* scraped_data_store.get(job_id, len(scraped_data_store.get(job_id, []))):
\* dict.get returns the stored value when the key is there, and its second
\* argument, here len([]), when it is not.
Count(job_id) ==
    LET default == Len(IF Has(scraped_data_store, job_id)
                       THEN scraped_data_store[job_id] ELSE <<>>)
    IN  IF Has(scraped_data_store, job_id) THEN List(scraped_data_store[job_id])
        ELSE Number(default)

\* for job_id, status in scraping_status.items(): the keys, one after another
RECURSIVE Items(_)
Items(keys) ==
    IF keys = {} THEN <<>>
    ELSE LET k == CHOOSE x \in keys : \A y \in keys : x <= y
         IN  <<k>> \o Items(keys \ {k})

\* GET /api/jobs: the list under "jobs" of the answer
Jobs ==
    LET keys == Items(DOMAIN scraping_status)
    IN  [k \in 1..Len(keys) |->
            [job_id |-> keys[k], status |-> scraping_status[keys[k]].status,
             count |-> Count(keys[k])]]

list_jobs ==
    /\ loop.pc = "idle"
    /\ UNCHANGED vars

\* DELETE /api/data/{job_id}, lines 156-157
delete_data_store(job_id) ==
    /\ loop.pc = "idle"
    /\ scraped_data_store' =
         IF Has(scraped_data_store, job_id) THEN Del(scraped_data_store, job_id)
         ELSE scraped_data_store
    /\ loop' = [pc |-> "line158", job_id |-> job_id,
                absent |-> ~Has(scraped_data_store, job_id)
                           /\ ~Has(scraping_status, job_id)]
    /\ UNCHANGED <<catalog, details, now, scraping_status, tasks>>

\* DELETE /api/data/{job_id}, lines 158-160
delete_data_status ==
    /\ loop.pc = "line158"
    /\ scraping_status' =
         IF Has(scraping_status, loop.job_id) THEN Del(scraping_status, loop.job_id)
         ELSE scraping_status
    /\ loop' = Idle
    /\ UNCHANGED <<catalog, details, now, scraped_data_store, tasks>>

\* ----------------------------------------------------- run_scraping_job
\* line 48
Line48(p) ==
    LET t == tasks[p] IN
    /\ t.pc = "line48"
    /\ scraping_status' =
         Put(scraping_status, t.job_id, RunningStatus(0, 0, Label("Initializing...", 0)))
    /\ SetTask(p, [t EXCEPT !.pc = "discover"])
    /\ UNCHANGED <<catalog, details, now, scraped_data_store, loop>>

\* discover_listings: one index page is fetched and read
DiscoverPage(p) ==
    LET t == tasks[p] IN
    /\ t.pc = "discover"
    /\ \E soup \in {NoSoup, Soup(PageAt(catalog, t.start_rec))} :
         LET u == [DiscoverTurn(t, soup) EXCEPT
                      !.fetches = Append(@, Fetch("index", t.start_rec, soup.ok))]
         IN  SetTask(p, IF u.discovering THEN u ELSE [u EXCEPT !.pc = AfterItem(u, 0)])
    /\ UNCHANGED <<catalog, details, now, scraping_status, scraped_data_store, loop>>

\* A callback that updated the fields of the stored dict one by one, and was
\* overtaken after the first, would break C19.
ProgressCallbackFieldwise(p) ==
    LET t == tasks[p] IN
    /\ t.pc = "callback"
    /\ scraping_status' =
         IF Has(scraping_status, t.job_id)
         THEN [scraping_status EXCEPT ![t.job_id].progress = t.i + 1]
         ELSE Put(scraping_status, t.job_id,
                  RunningStatus(t.i + 1, Len(t.item_numbers),
                                Label("Item", t.item_numbers[t.i + 1])))
    /\ SetTask(p, [t EXCEPT !.pc = "scrape"])
    /\ UNCHANGED <<catalog, details, now, scraped_data_store, loop>>

\* A callback that reported the items already scraped, not the item at hand,
\* would break C13 as amended.
ProgressCallbackCompleted(p) ==
    LET t == tasks[p] IN
    /\ t.pc = "callback"
    /\ scraping_status' =
         Put(scraping_status, t.job_id,
             RunningStatus(t.i, Len(t.item_numbers),
                           Label("Item", t.item_numbers[t.i + 1])))
    /\ SetTask(p, [t EXCEPT !.pc = "scrape"])
    /\ UNCHANGED <<catalog, details, now, scraped_data_store, loop>>

\* scrape_all_listings line 293 -> progress_callback, main.py lines 50-56
ProgressCallback(p) ==
    LET t == tasks[p] IN
    /\ t.pc = "callback"
    /\ scraping_status' =
         Put(scraping_status, t.job_id,
             RunningStatus(t.i + 1, Len(t.item_numbers),
                           Label("Item", t.item_numbers[t.i + 1])))
    /\ SetTask(p, [t EXCEPT !.pc = "scrape"])
    /\ UNCHANGED <<catalog, details, now, scraped_data_store, loop>>

\* A loop that scraped its first item at every turn would break C18.
ScrapeListingFirstItem(p) ==
    LET t == tasks[p] IN
    /\ t.pc = "scrape"
    /\ \E fetched \in BOOLEAN :
         SetTask(p, [t EXCEPT
             !.all_data = IF fetched
                          THEN Append(@, ListingData(t.item_numbers[1]))
                          ELSE @,
             !.i = @ + 1,
             !.fetches = Append(@, Fetch("detail", t.item_numbers[1], fetched)),
             !.pc = AfterItem(t, t.i + 1)])
    /\ UNCHANGED <<catalog, details, now, scraping_status, scraped_data_store, loop>>

\* scrape_all_listings lines 295-297: the detail page is fetched (or not) and read
ScrapeListing(p) ==
    LET t == tasks[p] IN
    /\ t.pc = "scrape"
    /\ \E fetched \in BOOLEAN :
         SetTask(p, [t EXCEPT
             !.all_data = IF fetched
                          THEN Append(@, ListingData(t.item_numbers[t.i + 1]))
                          ELSE @,
             !.i = @ + 1,
             !.fetches = Append(@, Fetch("detail", t.item_numbers[t.i + 1], fetched)),
             !.pc = AfterItem(t, t.i + 1)])
    /\ UNCHANGED <<catalog, details, now, scraping_status, scraped_data_store, loop>>

\* An exception other than a fetch failure leaves scrape_all_listings.
ScrapeFails(p) ==
    LET t == tasks[p] IN
    /\ t.pc \in {"discover", "scrape"}
    /\ SetTask(p, Raise(t, "Exception"))
    /\ UNCHANGED <<catalog, details, now, scraping_status, scraped_data_store, loop>>

\* lines 63-67
Line67(p) ==
    LET t == tasks[p] IN
    /\ t.pc = "line67"
    /\ scraped_data_store' = Put(scraped_data_store, t.job_id, Stored(t.all_data))
    /\ SetTask(p, [t EXCEPT !.all_data = Stored(@), !.pc = "line70"])
    /\ UNCHANGED <<catalog, details, now, scraping_status, loop>>

\* line 70 (try block) and line 81 (handler): scraping_status[job_id].get("progress", 0)
ReadProgress(p) ==
    LET t == tasks[p] IN
    /\ t.pc \in {"line70", "line81"}
    /\ SetTask(p,
         IF Has(scraping_status, t.job_id)
         THEN [t EXCEPT !.progress = scraping_status[t.job_id].progress,
                        !.pc = IF t.pc = "line70" THEN "line71" ELSE "line82"]
         ELSE IF t.pc = "line70" THEN Raise(t, "KeyError")
         ELSE Leave(t, "raised", "none"))
    /\ UNCHANGED <<catalog, details, now, scraping_status, scraped_data_store, loop>>

\* line 71 (try block) and line 82 (handler): scraping_status[job_id].get("total", 0)
ReadTotal(p) ==
    LET t == tasks[p] IN
    /\ t.pc \in {"line71", "line82"}
    /\ SetTask(p,
         IF Has(scraping_status, t.job_id)
         THEN [t EXCEPT !.total = scraping_status[t.job_id].total,
                        !.pc = IF t.pc = "line71" THEN "line68" ELSE "line77"]
         ELSE IF t.pc = "line71" THEN Raise(t, "KeyError")
         ELSE Leave(t, "raised", "none"))
    /\ UNCHANGED <<catalog, details, now, scraping_status, scraped_data_store, loop>>

\* lines 68-74: the completed dict is stored
Line68(p) ==
    LET t == tasks[p] IN
    /\ t.pc = "line68"
    /\ scraping_status' =
         Put(scraping_status, t.job_id,
             CompletedStatus(t.progress, t.total, Len(t.all_data)))
    /\ SetTask(p, Leave(t, "returned", "completed"))
    /\ UNCHANGED <<catalog, details, now, scraped_data_store, loop>>

\* A handler that stored the error dict under every key of the registry
\* would break the frame of C11.
Line77AllKeys(p) ==
    LET t == tasks[p] IN
    /\ t.pc = "line77"
    /\ scraping_status' =
         [j \in DOMAIN scraping_status \cup {t.job_id} |->
             ErrorStatus(t.e, t.progress, t.total)]
    /\ SetTask(p, Leave(t, "returned", "error"))
    /\ UNCHANGED <<catalog, details, now, scraped_data_store, loop>>

\* lines 77-83: the error dict is stored
Line77(p) ==
    LET t == tasks[p] IN
    /\ t.pc = "line77"
    /\ scraping_status' =
         Put(scraping_status, t.job_id, ErrorStatus(t.e, t.progress, t.total))
    /\ SetTask(p, Leave(t, "returned", "error"))
    /\ UNCHANGED <<catalog, details, now, scraped_data_store, loop>>

Next ==
    \/ \E m \in MaxListingsChoices : start_scraping(m)
    \/ \E j \in JobIds : get_scraping_status(j)
    \/ \E j \in JobIds : get_scraped_data(j)
    \/ list_jobs
    \/ \E j \in JobIds : delete_data_store(j)
    \/ delete_data_status
    \/ \E p \in Tasks : Line48(p)
    \/ \E p \in Tasks : DiscoverPage(p)
    \/ \E p \in Tasks : ProgressCallback(p)
    \/ \E p \in Tasks : ScrapeListing(p)
    \/ \E p \in Tasks : ScrapeFails(p)
    \/ \E p \in Tasks : Line67(p)
    \/ \E p \in Tasks : ReadProgress(p)
    \/ \E p \in Tasks : ReadTotal(p)
    \/ \E p \in Tasks : Line68(p)
    \/ \E p \in Tasks : Line77(p)

Spec == Init /\ [][Next]_vars

\* The behaviours without a delete_data call in which every start_scraping
\* reads a second no earlier call has read: C2, C3, C8, C9 and C10 hold of them.
\* discover_listings alone: a pass that has reached line 286, on any site.
DiscoverChoices == {None} \cup (0..MaxItems)

InitDiscover ==
    /\ catalog \in Sites
    /\ details = [n \in ItemNos |-> PlainDoc]
    /\ now = 0
    /\ scraping_status =
         Put(<<>>, strftime(0), RunningStatus(0, 0, Label("Initializing...", 0)))
    /\ scraped_data_store = <<>>
    /\ \E m \in DiscoverChoices :
         tasks = << [NewTask(strftime(0), m) EXCEPT !.pc = "discover"] >>
    /\ loop = Idle

NextDiscover == \E p \in Tasks : DiscoverPage(p)

SpecDiscover == InitDiscover /\ [][NextDiscover]_vars

\* scrape_listing alone: a pass about to scrape its one item, on any detail
\* page.
InitListing ==
    /\ catalog = << Page(<<1>>, 0) >>
    /\ \E doc \in Docs : details = [n \in ItemNos |-> doc]
    /\ now = 0
    /\ scraping_status = Put(<<>>, strftime(0), RunningStatus(1, 1, Label("Item", 1)))
    /\ scraped_data_store = <<>>
    /\ tasks = << [NewTask(strftime(0), None) EXCEPT
                      !.pc = "scrape", !.item_numbers = <<1>>, !.discovering = FALSE,
                      !.fetches = << Fetch("index", 1, TRUE) >>] >>
    /\ loop = Idle

NextListing == \E p \in Tasks : ScrapeListing(p)

SpecListing == InitListing /\ [][NextListing]_vars

\* One pass alone, on any site, from line 286 on.
NextPass ==
    \/ \E p \in Tasks : DiscoverPage(p)
    \/ \E p \in Tasks : ProgressCallback(p)
    \/ \E p \in Tasks : ScrapeListing(p)
    \/ \E p \in Tasks : ScrapeFails(p)
    \/ \E p \in Tasks : Line67(p)
    \/ \E p \in Tasks : ReadProgress(p)
    \/ \E p \in Tasks : ReadTotal(p)
    \/ \E p \in Tasks : Line68(p)
    \/ \E p \in Tasks : Line77(p)

SpecPass == InitDiscover /\ [][NextPass]_vars

NextQuiet ==
    /\ Next
    /\ loop = Idle /\ loop' = Idle
    /\ Len(tasks') > Len(tasks)
         => \A p \in 1..Len(tasks) : tasks[p].job_id # tasks'[Len(tasks')].job_id

SpecQuiet == Init /\ [][NextQuiet]_vars

\* ================================================================ claims
\* Shorthands of the claims below.
Left(t) == t.pc \in {"returned", "raised"}

\* Task p leaves run_scraping_job in this step.
Leaves(p) == p \in Tasks /\ ~Left(tasks[p]) /\ Left(tasks'[p])

\* discover_listings has returned to scrape_all_listings, whose frame is live.
Discovered(t) == ~Left(t) /\ ~t.discovering

\* The distinct identifiers the index pages expose: those of the pages a walk
\* from startRec = 1 reaches, each page filled to the batch size leading on.
RECURSIVE WalkIds(_, _)
WalkIds(cat, k) ==
    IF k > Len(cat) THEN {}
    ELSE {cat[k].ids[x] : x \in 1..Len(cat[k].ids)}
         \cup (IF LinkCount(cat[k]) >= items_per_page THEN WalkIds(cat, k + 1) ELSE {})

TotalAvailable(cat) == Cardinality(WalkIds(cat, 1))

\* C1: with max_items = N given and every index page fetched, discovery
\* returns exactly min(N, totalAvailable) identifiers, never more than N.
C1_DiscoverReturnsMin ==
    \A p \in Tasks :
        LET t == tasks[p] IN
        (Discovered(t) /\ t.e = "" /\ t.max_listings # None /\ t.soup = "doc")
            => Len(t.item_numbers) = Min(t.max_listings, TotalAvailable(catalog))

\* The last progress report a live pass has made: (0, 0) before the first.
LastReport(t) ==
    IF t.discovering THEN <<0, 0>> ELSE <<t.i + 1, Len(t.item_numbers)>>

\* C2: a pass that raised an unhandled failure in discovery or extraction
\* ends with status error carrying the message and trace, the counters of
\* its last progress report, and no result stored for the job.
C2_FailureEndsInError ==
    [][\A p \in Tasks :
          LET t == tasks[p]
              j == t.job_id
          IN  (Leaves(p) /\ t.e = "Exception")
                => /\ Has(scraping_status', j)
                   /\ scraping_status'[j] =
                        ErrorStatus("Exception", LastReport(t)[1], LastReport(t)[2])
                   /\ ~Has(scraped_data_store', j)]_vars

\* C3: a pass whose discovery returned no identifier ends with status
\* completed and an empty result stored, never with status error.
C3_EmptyDiscoveryCompletes ==
    [][\A p \in Tasks :
          LET t == tasks[p]
              j == t.job_id
          IN  (Leaves(p) /\ ~t.discovering /\ t.item_numbers = <<>>)
                => /\ Has(scraping_status', j)
                   /\ scraping_status'[j].status = "completed"
                   /\ Has(scraped_data_store', j)
                   /\ scraped_data_store'[j] = <<>>]_vars

\* C4: whenever a request can be served, get_scraped_data answers 200 for a
\* job id only if get_scraping_status answers with status completed for it.
C4_ResultOnlyWhenCompleted ==
    loop.pc = "idle" =>
        \A j \in JobIds :
            DataCode(j) = 200 =>
                StatusCode(j) = 200 /\ scraping_status[j].status = "completed"

\* Job j was started.
Started(j) == \E p \in Tasks : tasks[p].job_id = j

\* C5: once delete_data has removed both entries of a started job, no step
\* other than a new start_scraping creates an entry for that id again.
C5_DeleteIsFinal ==
    [][\A j \in JobIds :
          (/\ Started(j)
           /\ ~Has(scraping_status, j) /\ ~Has(scraped_data_store, j)
           /\ Len(tasks') = Len(tasks))
            => ~Has(scraping_status', j) /\ ~Has(scraped_data_store', j)]_vars

\* Every entry of the registry but those of job id j is left as it was.
OthersUnchanged(j) ==
    /\ \A k \in (DOMAIN scraping_status) \ {j} :
          Has(scraping_status', k) /\ scraping_status'[k] = scraping_status[k]
    /\ \A k \in (DOMAIN scraped_data_store) \ {j} :
          Has(scraped_data_store', k) /\ scraped_data_store'[k] = scraped_data_store[k]

\* C6: a delete_data call made for an id the registry holds no entry for
\* changes no other job's entries, and when it returns both lookups of
\* that id answer 404 (as they would after one call, or after none).
C6_DeleteUnknownIsNoop ==
    [][/\ (loop.pc = "idle" /\ loop'.pc = "line158" /\ loop'.absent)
            => OthersUnchanged(loop'.job_id)
       /\ (loop.pc = "line158" /\ loop.absent /\ loop'.pc = "idle")
            => /\ OthersUnchanged(loop.job_id)
               /\ ~Has(scraping_status', loop.job_id)
               /\ ~Has(scraped_data_store', loop.job_id)]_vars

\* What C6 says, of the ids no start_scraping has returned: it holds of Spec.
DeleteNeverStartedIsNoop ==
    [][(loop.pc = "line158" /\ loop.absent /\ loop'.pc = "idle"
            /\ ~Started(loop.job_id))
          => /\ OthersUnchanged(loop.job_id)
             /\ ~Has(scraping_status', loop.job_id)
             /\ ~Has(scraped_data_store', loop.job_id)]_vars

\* C7: no two start_scraping calls return the same job id.
C7_JobIdsDiffer ==
    \A p, q \in Tasks : p # q => tasks[p].job_id # tasks[q].job_id

\* The status a job id shows: "absent" when it has no entry.
Shown(st, j) == IF Has(st, j) THEN st[j].status ELSE "absent"

\* C8: the status of a job id moves only absent -> pending -> running ->
\* completed or error; a terminal entry changes only by being deleted.
C8_Lifecycle ==
    [][\A j \in JobIds :
          LET a == Shown(scraping_status, j)
              b == Shown(scraping_status', j)
          IN  \/ b = "absent"
              \/ a = "absent" /\ b = "pending"
              \/ a = "pending" /\ b \in {"pending", "running"}
              \/ a = "running" /\ b \in {"running", "completed", "error"}
              \/ a \in {"completed", "error"}
                    /\ scraping_status'[j] = scraping_status[j]]_vars

\* C9: a pass that has finished has written a terminal status for its job.
C9_FinishedPassWroteTerminal ==
    \A p \in Tasks : Left(tasks[p]) => tasks[p].wrote \in {"completed", "error"}

\* C10: run_scraping_job never ends by an exception leaving it.
C10_NoExceptionEscapes ==
    \A p \in Tasks : tasks[p].pc # "raised"

\* ------------------------------------------------------------ C11 .. C20
\* p takes a step of run_scraping_job.
PassStep(p) == p \in Tasks /\ tasks'[p] # tasks[p]

\* C11: a pass writes only the registry entries keyed by its own job id: a
\* step of a pass, the storing of its error dict included, leaves the status
\* and result entries under every other job id as they were.
C11_PassWritesOwnKey ==
    [][\A p \in Tasks :
          PassStep(p) =>
              /\ OthersUnchanged(tasks[p].job_id)
              /\ DOMAIN scraping_status' \subseteq
                     DOMAIN scraping_status \cup {tasks[p].job_id}
              /\ DOMAIN scraped_data_store' \subseteq
                     DOMAIN scraped_data_store \cup {tasks[p].job_id}]_vars

\* One job has ended in error while the registry holds another job's entries.
C11_Witness ==
    \E j, k \in JobIds :
        /\ j # k
        /\ Has(scraping_status, j) /\ scraping_status[j].status = "error"
        /\ Has(scraping_status, k) /\ scraping_status[k].status = "completed"
        /\ Has(scraped_data_store, k)

\* The records of the detail pages that came back, in the order of the calls.
RECURSIVE Fetched(_)
Fetched(fetches) ==
    IF fetches = <<>> THEN <<>>
    ELSE LET f == Head(fetches)
         IN  IF f.kind = "detail" /\ f.ok
             THEN <<ListingData(f.arg)>> \o Fetched(Tail(fetches))
             ELSE Fetched(Tail(fetches))

\* Some get_soup call of this kind returned None.
Failed(fetches, kind) ==
    \E k \in 1..Len(fetches) : fetches[k].kind = kind /\ ~fetches[k].ok

\* C12: a pass in which a detail fetch failed, and nothing but fetches
\* failed, ends with its job completed, and the job's stored result is
\* exactly the records of the identifiers whose detail fetch succeeded, in
\* discovery order.
C12_FetchFailureSkipsItem ==
    [][\A p \in Tasks :
          LET t == tasks[p]
              j == t.job_id
          IN  (Leaves(p) /\ t.e # "Exception" /\ Failed(t.fetches, "detail")) =>
                  /\ Has(scraping_status', j)
                  /\ scraping_status'[j].status = "completed"
                  /\ Has(scraped_data_store', j)
                  /\ scraped_data_store'[j] = Stored(Fetched(t.fetches))]_vars

\* What C12 says of scrape_all_listings alone: when it returns, all_data holds
\* the records of the detail pages that came back, one per identifier, in
\* discovery order.  It holds of Spec.
ScrapeAllSkipsFailedFetches ==
    \A p \in Tasks :
        LET t == tasks[p]
        IN  t.pc = "line67" =>
               /\ t.all_data = Fetched(t.fetches)
               /\ \E s \in [1..Len(t.all_data) -> 1..Len(t.item_numbers)] :
                     /\ \A a, b \in 1..Len(t.all_data) : a < b => s[a] < s[b]
                     /\ \A a \in 1..Len(t.all_data) :
                           t.all_data[a] = ListingData(t.item_numbers[s[a]])

\* The scrape_listing calls of a pass that have returned.
Extracted(t) == Cardinality({k \in 1..Len(t.fetches) : t.fetches[k].kind = "detail"})

\* p calls progress_callback.
Reports(p) == p \in Tasks /\ tasks[p].pc = "callback" /\ tasks'[p].pc = "scrape"

\* C13 (as amended): the progress callback runs before the extraction of the
\* item it reports: when a pass reports progress.current = k, exactly k - 1
\* of its identifiers have been extracted, and total is the number discovered.
C13_ReportPrecedesExtraction ==
    [][\A p \in Tasks :
          LET t == tasks[p]
              j == t.job_id
          IN  Reports(p) =>
                  /\ Has(scraping_status', j)
                  /\ scraping_status'[j].status = "running"
                  /\ scraping_status'[j].progress = Extracted(t) + 1
                  /\ scraping_status'[j].total = Len(t.item_numbers)
                  /\ Extracted(tasks'[p]) = Extracted(t)]_vars

\* A pass has reported progress 2 while one extraction has finished.
C13_Witness ==
    \E p \in Tasks :
        LET t == tasks[p]
        IN  /\ t.pc = "scrape" /\ Extracted(t) = 1
            /\ Has(scraping_status, t.job_id)
            /\ scraping_status[t.job_id].progress = 2

\* C13 (as claimed): when a pass reports progress.current = k, the extraction
\* of at least k identifiers has already finished.
C13_ReportFollowsExtraction ==
    [][\A p \in Tasks :
          LET t == tasks[p]
              j == t.job_id
          IN  Reports(p) =>
                  /\ Has(scraping_status', j)
                  /\ scraping_status'[j].progress <= Extracted(t)]_vars

\* p reads an index page that get_soup returned.
ReadsPage(p) ==
    /\ p \in Tasks /\ tasks[p].pc = "discover"
    /\ Len(tasks'[p].fetches) = Len(tasks[p].fetches) + 1
    /\ tasks'[p].fetches[Len(tasks'[p].fetches)].ok

\* The identifiers on the pages a pass has read, the page at hand included.
SeenIds(t) ==
    { t.item_numbers[k] : k \in 1..Len(t.item_numbers) } \cup
    LET ids == PageAt(catalog, t.start_rec).ids IN { ids[k] : k \in 1..Len(ids) }

\* max_items is given and the pages read carry that many identifiers.
Reached(t) ==
    /\ t.max_listings # None /\ t.max_listings # 0
    /\ Cardinality(SeenIds(t)) >= t.max_listings

Advances(p) ==
    /\ tasks'[p].pc = "discover"
    /\ tasks'[p].start_rec = tasks[p].start_rec + 100

\* The index pages a pass has asked for are those at 1, 101, 201, ...
OffsetsInOrder(t) ==
    \A k \in 1..Len(t.fetches) :
        t.fetches[k].kind = "index" => t.fetches[k].arg = 1 + 100 * (k - 1)

\* C14 (as amended): after an index page of exactly 100 links discovery
\* advances the offset by 100 and asks for the next page, unless max_items is
\* given (and not 0) and that many identifiers have been seen, in which case
\* it stops; after a page of fewer than 100 links it stops.  The offsets
\* asked for are 1, 101, 201, ... in that order.
C14_PaginationUnlessMaxReached ==
    [][\A p \in Tasks :
          LET t == tasks[p]
              links == LinkCount(PageAt(catalog, t.start_rec))
          IN  /\ ReadsPage(p) =>
                    /\ (links = 100 /\ ~Reached(t)) => Advances(p)
                    /\ (links = 100 /\ Reached(t)) => tasks'[p].pc # "discover"
                    /\ links < 100 => tasks'[p].pc # "discover"
              /\ OffsetsInOrder(tasks'[p])]_vars

\* A pass has read a page of 100 links and asked for the page at 101.
C14_Witness ==
    \E p \in Tasks :
        LET t == tasks[p]
        IN  /\ Len(t.fetches) = 2
            /\ t.fetches[1] = Fetch("index", 1, TRUE)
            /\ t.fetches[2].kind = "index" /\ t.fetches[2].arg = 101
            /\ LinkCount(PageAt(catalog, 1)) = 100

\* C14 (as claimed): after every index page of exactly 100 links discovery
\* advances the offset by 100 and asks for the next page; after a page of
\* fewer than 100 links it stops; the offsets are 1, 101, 201, ... in order.
C14_PaginationAlways ==
    [][\A p \in Tasks :
          LET t == tasks[p]
              links == LinkCount(PageAt(catalog, t.start_rec))
          IN  /\ ReadsPage(p) =>
                    /\ links = 100 => Advances(p)
                    /\ links < 100 => tasks'[p].pc # "discover"
              /\ OffsetsInOrder(tasks'[p])]_vars

\* The ItemNo values of the anchors of the index pages a pass has read, in
\* the order the pass met them.
RECURSIVE Walked(_)
Walked(fetches) ==
    IF fetches = <<>> THEN <<>>
    ELSE LET f == Head(fetches)
         IN  (IF f.kind = "index" /\ f.ok THEN PageAt(catalog, f.arg).ids ELSE <<>>)
                 \o Walked(Tail(fetches))

Range(s) == { s[k] : k \in 1..Len(s) }

\* Where x first appears in s.
FirstAt(s, x) == CHOOSE k \in 1..Len(s) : s[k] = x /\ \A m \in 1..(k - 1) : s[m] # x

\* out lists identifiers of s without a duplicate, in order of first
\* appearance in s, and leaves out none that first appears before one it lists.
FirstAppearances(out, s) ==
    /\ Range(out) \subseteq Range(s)
    /\ \A a, b \in 1..Len(out) :
          a < b => out[a] # out[b] /\ FirstAt(s, out[a]) < FirstAt(s, out[b])
    /\ \A x \in Range(s) :
          (\E a \in 1..Len(out) : FirstAt(s, x) < FirstAt(s, out[a])) => x \in Range(out)

\* C15: the list discover_listings holds has no duplicate identifier and lists
\* identifiers in order of first appearance across the pages walked (all of
\* them, or the first max_items of them); an identifier already seen is not
\* added again, but its anchor counts as a link of its page: a page of 100
\* anchors is a full page whether or not its identifiers are new.
C15_NoDuplicatesFirstAppearance ==
    [][\A p \in Tasks :
          LET t == tasks[p]
              u == tasks'[p]
              page == PageAt(catalog, t.start_rec)
          IN  /\ FirstAppearances(u.item_numbers, Walked(u.fetches))
              /\ \/ Range(u.item_numbers) = Range(Walked(u.fetches))
                 \/ /\ u.max_listings \in 1..Len(Walked(u.fetches))
                    /\ Len(u.item_numbers) = u.max_listings
              /\ (ReadsPage(p) /\ LinkCount(page) = 100 /\ ~Reached(t)
                      /\ Cardinality(Range(page.ids) \ Range(t.item_numbers))
                            < Len(page.ids))
                    => Advances(p)]_vars

\* A pass has read two pages that carry a common identifier, the first of
\* them a page of 100 anchors with a repeated identifier.
C15_Witness ==
    \E p \in Tasks :
        LET t == tasks[p]
        IN  /\ Len(t.fetches) = 2 /\ t.fetches[1].ok /\ t.fetches[2].ok
            /\ t.pc # "discover"
            /\ PageAt(catalog, 1) = FullPage(<<1, 1>>)
            /\ PageAt(catalog, 101).ids = <<3, 1>>
            /\ t.item_numbers = <<1, 3>>

\* The normalized URLs a detail page offers, in the order of the three
\* passes: the preview image, the additional-image links, the images of the
\* fallback scan, each group in document order.
Normalized(url) == urljoin(BASE_URL, Url(url.path, ""))

RECURSIVE NormalizedAll(_)
NormalizedAll(urls) ==
    IF urls = <<>> THEN <<>>
    ELSE (IF Head(urls) = NoUrl THEN <<>> ELSE << Normalized(Head(urls)) >>)
             \o NormalizedAll(Tail(urls))

Candidates(doc) ==
    LET srcs == [k \in 1..Len(doc.imgs) |-> doc.imgs[k].src]
        prev == SelectSeq(doc.imgs, LAMBDA img : img.class = "imgprev")
        scan == SelectSeq(srcs, LAMBDA src : src.path \in ClientResources \cap ImageExt)
    IN  NormalizedAll(IF prev = <<>> THEN <<>> ELSE << prev[1].src >>)
            \o NormalizedAll(doc.links) \o NormalizedAll(scan)

\* The pass is in scrape_all_listings, or has just left it: the records of
\* all_data carry their pictures as lists.
InScrapeAll(t) == t.pc \in {"callback", "scrape", "line67"}

\* C16: the pictures list of a record never holds the same normalized URL
\* twice, whatever query strings the page puts behind an image path and in
\* however many of the three passes the image appears; it lists the
\* normalized URLs of the page in first-seen order, the preview image first,
\* then the additional-image links, then the fallback scan.
C16_PicturesDeduplicated ==
    \A p \in Tasks :
        \A k \in 1..Len(tasks[p].all_data) :
            LET record == tasks[p].all_data[k]
                offered == Candidates(details[record.item_id])
            IN  InScrapeAll(tasks[p]) =>
                    /\ FirstAppearances(record.pictures, offered)
                    /\ Range(record.pictures) = Range(offered)

\* What C16 says when no src or href of the page carries a query string.
\* It holds of SpecListing.
PicturesDeduplicatedWithoutQueries ==
    \A p \in Tasks :
        \A k \in 1..Len(tasks[p].all_data) :
            LET record == tasks[p].all_data[k]
                doc == details[record.item_id]
                offered == Candidates(doc)
            IN  (/\ InScrapeAll(tasks[p])
                 /\ \A a \in 1..Len(doc.imgs) : doc.imgs[a].src.query = ""
                 /\ \A a \in 1..Len(doc.links) : doc.links[a].query = "") =>
                    /\ FirstAppearances(record.pictures, offered)
                    /\ Range(record.pictures) = Range(offered)

\* C17: a pass in which an index-page fetch failed, and nothing but fetches
\* failed, has gone on to extract the identifiers of the pages fetched
\* before, and ends with its job completed, not error, the result being the
\* records of those identifiers.
C17_IndexFailureStillCompletes ==
    [][\A p \in Tasks :
          LET t == tasks[p]
              j == t.job_id
          IN  (Leaves(p) /\ t.e # "Exception" /\ Failed(t.fetches, "index")) =>
                  /\ Range(t.item_numbers) = Range(Walked(t.fetches))
                  /\ Extracted(t) = Len(t.item_numbers)
                  /\ Has(scraping_status', j)
                  /\ scraping_status'[j].status = "completed"
                  /\ Has(scraped_data_store', j)
                  /\ scraped_data_store'[j] = Stored(Fetched(t.fetches))]_vars

\* What C17 says of discover_listings alone: a failed index-page fetch ends
\* the loop without an exception, with the identifiers gathered before it.
\* It holds of SpecDiscover.
IndexFailureStopsDiscovery ==
    [][\A p \in Tasks :
          LET t == tasks[p]
              u == tasks'[p]
          IN  (t.pc = "discover" /\ Len(u.fetches) = Len(t.fetches) + 1
                  /\ ~u.fetches[Len(u.fetches)].ok) =>
                  /\ u.pc \in {"callback", "line67"} /\ u.e = ""
                  /\ u.item_numbers = t.item_numbers
                  /\ Range(u.item_numbers) = Range(Walked(u.fetches))]_vars

\* The item numbers of the detail pages a pass has asked for, in order.
RECURSIVE DetailArgs(_)
DetailArgs(fetches) ==
    IF fetches = <<>> THEN <<>>
    ELSE (IF Head(fetches).kind = "detail" THEN << Head(fetches).arg >> ELSE <<>>)
             \o DetailArgs(Tail(fetches))

\* C18: within one job discovery runs once, and every index-page fetch
\* precedes every detail-page fetch; the extractor is called once per
\* discovered identifier, in discovery order (for all of them once
\* scrape_all_listings returns); a step of the pass makes at most one fetch,
\* and no fetch is made twice.
C18_FetchOrder ==
    [][\A p \in Tasks :
          LET t == tasks[p]
              u == tasks'[p]
              f == u.fetches
          IN  /\ \A a, b \in 1..Len(f) :
                    /\ (f[a].kind = "detail" /\ f[b].kind = "index") => b < a
                    /\ (a # b) => (f[a].kind # f[b].kind \/ f[a].arg # f[b].arg)
              /\ DetailArgs(f) = SubSeq(u.item_numbers, 1, Len(DetailArgs(f)))
              /\ u.pc = "line67" => DetailArgs(f) = u.item_numbers
              /\ (~Left(u) /\ ~t.discovering) =>
                    (~u.discovering /\ u.item_numbers = t.item_numbers)
              /\ ~Left(u) =>
                    \/ f = t.fetches
                    \/ /\ Len(f) = Len(t.fetches) + 1
                       /\ SubSeq(f, 1, Len(t.fetches)) = t.fetches
                       /\ PassStep(p)]_vars

\* A pass has fetched two index pages and then the detail pages of its three
\* identifiers.
C18_Witness ==
    \E p \in Tasks :
        LET t == tasks[p]
        IN  /\ t.pc = "line67" /\ Len(t.fetches) = 5
            /\ t.fetches[2].kind = "index" /\ t.fetches[3].kind = "detail"
            /\ Len(t.item_numbers) = 3

\* The status dict the statement a pass is at assigns, built from the pass's
\* locals; the empty set when the statement assigns none.
Assigns(t) ==
    CASE t.pc = "line48" -> { RunningStatus(0, 0, Label("Initializing...", 0)) }
      [] t.pc = "callback" ->
            { RunningStatus(t.i + 1, Len(t.item_numbers),
                            Label("Item", t.item_numbers[t.i + 1])) }
      [] t.pc = "line68" -> { CompletedStatus(t.progress, t.total, Len(t.all_data)) }
      [] t.pc = "line77" -> { ErrorStatus(t.e, t.progress, t.total) }
      [] OTHER -> {}

\* C19: every write to a job's registry entry replaces the whole status dict
\* in one assignment: whenever the entry under an id is new or differs from
\* what it was, its value is, as a whole (status, progress, total and label
\* together), the dict one statement of one pass assigned in that step, or
\* the pending dict of start_scraping.  What get_scraping_status returns is
\* therefore always the value of a single write.
C19_WholeValueWrites ==
    [][\A j \in DOMAIN scraping_status' :
          (~Has(scraping_status, j) \/ scraping_status'[j] # scraping_status[j]) =>
              \/ /\ Len(tasks') = Len(tasks) + 1
                 /\ tasks'[Len(tasks')].job_id = j
                 /\ scraping_status'[j] = PendingStatus
              \/ \E p \in Tasks :
                    /\ PassStep(p) /\ tasks[p].job_id = j
                    /\ scraping_status'[j] \in Assigns(tasks[p])]_vars

\* get_scraping_status can run while a pass is between two of its writes,
\* after a second job has written to the registry as well.
C19_Witness ==
    \E p, q \in Tasks :
        /\ p # q /\ loop.pc = "idle"
        /\ tasks[p].pc = "scrape"
        /\ StatusCode(tasks[p].job_id) = 200
        /\ scraping_status[tasks[p].job_id] = RunningStatus(2, 2, Label("Item", 2))
        /\ tasks[q].wrote = "completed"

\* C20: in every state a job's entry has 0 <= progress <= total, and its
\* progress never decreases while the entry lives; when a pass stores the
\* completed dict, progress = total = the number of identifiers it discovered,
\* and count is the length of the stored result and at most total.
C20_ProgressBounds ==
    [][/\ \A j \in DOMAIN scraping_status' :
            LET v == scraping_status'[j]
            IN  /\ 0 <= v.progress /\ v.progress <= v.total
                /\ Has(scraping_status, j) => scraping_status[j].progress <= v.progress
       /\ \A p \in Tasks :
            LET t == tasks[p]
                j == t.job_id
            IN  (Leaves(p) /\ Has(scraping_status', j)
                    /\ scraping_status'[j].status = "completed") =>
                    /\ scraping_status'[j].progress = Len(t.item_numbers)
                    /\ scraping_status'[j].total = Len(t.item_numbers)
                    /\ Has(scraped_data_store', j)
                    /\ scraping_status'[j].count = Len(scraped_data_store'[j])
                    /\ scraping_status'[j].count <= scraping_status'[j].total]_vars

\* The entries of the answer of list_jobs that carry job id j.
EntriesOf(j) == { k \in 1..Len(Jobs) : Jobs[k].job_id = j }

\* C21: the answer of list_jobs has exactly one entry per job id of the status
\* registry, and no other; the entry carries the job's current status and a
\* count that is the number of records of its stored result, 0 when no
\* result is stored.
C21_ListJobs ==
    loop.pc = "idle" =>
        /\ \A k \in 1..Len(Jobs) : Has(scraping_status, Jobs[k].job_id)
        /\ \A j \in DOMAIN scraping_status :
              /\ Cardinality(EntriesOf(j)) = 1
              /\ \A k \in EntriesOf(j) :
                    /\ Jobs[k].status = scraping_status[j].status
                    /\ Jobs[k].count =
                          Number(IF Has(scraped_data_store, j)
                                 THEN Len(scraped_data_store[j]) ELSE 0)

\* What C21 says of the entries and their status, and of the count of the
\* jobs no result is stored for.  It holds of Spec.
ListJobsWithoutResults ==
    loop.pc = "idle" =>
        /\ \A k \in 1..Len(Jobs) : Has(scraping_status, Jobs[k].job_id)
        /\ \A j \in DOMAIN scraping_status :
              /\ Cardinality(EntriesOf(j)) = 1
              /\ \A k \in EntriesOf(j) :
                    /\ Jobs[k].status = scraping_status[j].status
                    /\ ~Has(scraped_data_store, j) => Jobs[k].count = Number(0)

====
